---- MODULE Spec2Model ----
(***************************************************************************)
(* A model of the ultra_tournament crate: the bracket builder              *)
(* (Tournament::new / add_layer), the winner lookup (_winner /             *)
(* _child_node) and the recursive solver (solve / solve_round /            *)
(* solve_rec), over petgraph's Graph and the IntBattleSystem battle        *)
(* policy of the crate's tests.                                            *)
(***************************************************************************)
EXTENDS Integers, Sequences, FiniteSets, TLC

\* ------------------------------------------------------------------ bounds
\* Largest number of entrants of a generated tournament.
MaxN == 3
\* Entrant values of a generated tournament are drawn from 1..MaxVal.
MaxVal == 2
\* Largest N for which every ordering of the values 1..N is generated.
MaxPerm == 4
\* Largest N for which the list of the values 1..N in ascending order is
\* generated.
MaxAscending == 12
\* Largest number of solve / solve_round calls made on one tournament.
MaxCalls == 2

\* ------------------------------------------------------------------ types
\* TournamentEdge / TournamentRoundResult (types.rs): both have the variants
\* A and B, and the From conversions map A to A and B to B.
Sides == {"A", "B"}

EdgeFromResult(r) == IF r = "A" THEN "A" ELSE "B"

\* Option<T>: None is the empty sequence, Some(v) the one-element sequence.
None == <<>>
Some(v) == <<v>>
IsSome(o) == Len(o) = 1
Unwrap(o) == o[1]

\* TournamentNode<M> and TournamentRound<M>.
Entrant(eid) == [kind |-> "Entrant", eid |-> eid]
Incomplete == [kind |-> "Round", complete |-> FALSE]
Complete(result, metadata) ==
    [kind |-> "Round", complete |-> TRUE, result |-> result, metadata |-> metadata]

IsEntrant(w) == w.kind = "Entrant"
IsRound(w) == w.kind = "Round"
IsComplete(w) == w.kind = "Round" /\ w.complete
IsIncomplete(w) == w.kind = "Round" /\ ~w.complete

\* TournamentError.
RoundNotFound(id) == [kind |-> "RoundNotFound", id |-> id]
EntrantNotFound(eid) == [kind |-> "EntrantNotFound", eid |-> eid]
MalformedBracket == [kind |-> "MalformedBracket"]
NeedsAtLeastOneEntrant == [kind |-> "NeedsAtLeastOneEntrant"]
Other(msg) == [kind |-> "Other", msg |-> msg]

\* Result<T>.
Ok(v) == [ok |-> TRUE, val |-> v]
Err(e) == [ok |-> FALSE, err |-> e]

\* ------------------------------------------------------------------ petgraph
\* Graph<N, E>: an arena of node weights and an arena of edges.  NodeIndex k
\* is the k-th node added, counted from 0, and is stored at nodes[k + 1].
EmptyGraph == [nodes |-> <<>>, edges |-> <<>>]

node_count(g) == Len(g.nodes)

node_indices(g) == 0 .. (Len(g.nodes) - 1)

\* Graph::add_node returns the index of the new node, which is the node
\* count before the call.
add_node(g, w) == [g EXCEPT !.nodes = Append(@, w)]

add_edge(g, a, b, w) ==
    [g EXCEPT !.edges = Append(@, [source |-> a, target |-> b, weight |-> w])]

\* Graph::node_weight: None for an index that is not in the graph.
node_weight(g, id) ==
    IF id \in node_indices(g) THEN Some(g.nodes[id + 1]) ELSE None

\* node_weight_set adding a node that holds the weight.
node_weight_set_adding(g, id, w) == add_node(g, w)

node_weight_set(g, id, w) == [g EXCEPT !.nodes[id + 1] = w]

Reverse(s) == [i \in 1 .. Len(s) |-> s[Len(s) + 1 - i]]

\* Graph::edges_directed(id, Outgoing): add_edge puts the new edge at the head
\* of the source node's list of outgoing edges, so the edges come out most
\* recently added first.  A node that is not in the graph has none.
edges_directed(g, id) ==
    Reverse(SelectSeq(g.edges, LAMBDA e : e.source = id))

\* Graph::neighbors_directed(id, Outgoing): the targets of the same walk.
neighbors_directed(g, id) ==
    LET es == edges_directed(g, id) IN [i \in 1 .. Len(es) |-> es[i].target]

\* ------------------------------------------------------------------ builder
\* split_at with the upper part starting one element late.
split_at_dropping(s, mid) == <<SubSeq(s, 1, mid), SubSeq(s, mid + 2, Len(s))>>

\* split_at cutting one element early.
split_at_one_early(s, mid) == <<SubSeq(s, 1, mid - 1), SubSeq(s, mid, Len(s))>>

\* <[T]>::split_at(mid) and split_first().1
split_at(s, mid) == <<SubSeq(s, 1, mid), SubSeq(s, mid + 1, Len(s))>>

Tail1(s) == SubSeq(s, 2, Len(s))

\* add_layer_bye with both edges labelled A.
add_layer_bye_same_label(graph, parent, entrants) ==
    LET p == node_count(graph)
        g1 == add_node(graph, Incomplete)
        bye == node_count(g1)
        g2 == add_node(g1, Entrant(entrants[1]))
        g3 == add_edge(g2, parent, p, "A")
    IN  add_edge(g3, parent, bye, "A")

\* The three-entrant arm of add_layer without its recursion: a new round on
\* the A edge, the first id as a bye leaf on the B edge.
add_layer_bye(graph, parent, entrants) ==
    LET p == node_count(graph)
        g1 == add_node(graph, Incomplete)
        bye == node_count(g1)
        g2 == add_node(g1, Entrant(entrants[1]))
        g3 == add_edge(g2, parent, p, "A")
    IN  add_edge(g3, parent, bye, "B")

\* add_layer_regular with the first id on the B edge and the second on the A edge.
add_layer_regular_swapped(graph, parent, entrants) ==
    LET a == node_count(graph)
        g1 == add_node(graph, Entrant(entrants[1]))
        b == node_count(g1)
        g2 == add_node(g1, Entrant(entrants[2]))
        g3 == add_edge(g2, parent, a, "B")
    IN  add_edge(g3, parent, b, "A")

\* The two-entrant arm of add_layer.
add_layer_regular(graph, parent, entrants) ==
    LET a == node_count(graph)
        g1 == add_node(graph, Entrant(entrants[1]))
        b == node_count(g1)
        g2 == add_node(g1, Entrant(entrants[2]))
        g3 == add_edge(g2, parent, a, "A")
    IN  add_edge(g3, parent, b, "B")

\* The arm for four or more entrants without its recursion: two new rounds.
add_layer_split(graph, parent) ==
    LET p_a == node_count(graph)
        g1 == add_node(graph, Incomplete)
        p_b == node_count(g1)
        g2 == add_node(g1, Incomplete)
        g3 == add_edge(g2, parent, p_a, "A")
    IN  add_edge(g3, parent, p_b, "B")

RECURSIVE add_layer(_, _, _)
add_layer(old_graph, parent, entrants) ==
    IF Len(entrants) = 3 THEN
        add_layer(add_layer_bye(old_graph, parent, entrants),
                  node_count(old_graph), Tail1(entrants))
    ELSE IF Len(entrants) = 2 THEN
        add_layer_regular(old_graph, parent, entrants)
    ELSE IF Len(entrants) = 1 THEN
        old_graph
    ELSE
        LET halves == split_at(entrants, Len(entrants) \div 2)
            p_a == node_count(old_graph)
            p_b == p_a + 1
            g1 == add_layer_split(old_graph, parent)
            g2 == add_layer(g1, p_a, halves[1])
        IN  add_layer(g2, p_b, halves[2])

\* new refusing a single entrant as well as none.
new_rejecting_one(entrants) ==
    IF Len(entrants) <= 1 THEN Err(NeedsAtLeastOneEntrant)
    ELSE
        LET entrant_ids == [i \in 1 .. Len(entrants) |-> i - 1]
            g0 == add_node(EmptyGraph, Incomplete)
        IN  Ok([graph |-> add_layer(g0, 0, entrant_ids),
                entrants |-> entrants,
                grand_finals |-> 0])

\* Tournament::new: the entrant cells, the ids 0..N-1 in input order, the
\* grand finals node and the graph under it.
new(entrants) ==
    IF Len(entrants) = 0 THEN Err(NeedsAtLeastOneEntrant)
    ELSE
        LET entrant_ids == [i \in 1 .. Len(entrants) |-> i - 1]
            root == IF Len(entrants) = 1 THEN Entrant(0) ELSE Incomplete
            g0 == add_node(EmptyGraph, root)
        IN  Ok([graph |-> add_layer(g0, 0, entrant_ids),
                entrants |-> entrants,
                grand_finals |-> 0])

\* Tournament::new_from_gen: size calls of the generator, whose successive
\* return values are gen[1], gen[2], ..., then Tournament::new on them.
new_from_gen(size, gen) == new([i \in 1 .. size |-> gen[i]])

\* ------------------------------------------------------------------ lookups
\* len_entrants, len_rounds, len_rounds_complete, len_rounds_incomplete.
len_entrants(t) == Len(t.entrants)

len_rounds(g) == Cardinality({n \in node_indices(g) : IsRound(g.nodes[n + 1])})

len_rounds_complete(g) ==
    Cardinality({n \in node_indices(g) : IsComplete(g.nodes[n + 1])})

len_rounds_incomplete(g) ==
    Cardinality({n \in node_indices(g) : IsIncomplete(g.nodes[n + 1])})

\* _child_node returning the target of the edge that carries the label.
_child_node_straight(g, id, target) ==
    LET children == edges_directed(g, id) IN
    IF Len(children) < 2 THEN Err(MalformedBracket)
    ELSE IF children[1].weight = target THEN Ok(children[1].target)
    ELSE IF children[2].weight = target THEN Ok(children[2].target)
    ELSE Err(MalformedBracket)

\* Tournament::_child_node: the first two outgoing edges in iteration order;
\* when the first carries the wanted label the target of the second is
\* returned, when the second carries it the target of the first.
_child_node(g, id, target) ==
    LET children == edges_directed(g, id) IN
    IF Len(children) < 2 THEN Err(MalformedBracket)
    ELSE IF children[1].weight = target THEN Ok(children[2].target)
    ELSE IF children[2].weight = target THEN Ok(children[1].target)
    ELSE Err(MalformedBracket)

\* Tournament::_child_nodes: the pair (_child_node A, _child_node B).
_child_nodes(g, id) ==
    LET ca == _child_node(g, id, "A")
        cb == _child_node(g, id, "B")
    IN  IF ~ca.ok THEN ca
        ELSE IF ~cb.ok THEN cb
        ELSE Ok(<<ca.val, cb.val>>)

\* Tournament::_winner: Result<Option<EntrantId>>.
RECURSIVE _winner(_, _)
_winner(g, id) ==
    LET cur_res == node_weight(g, id) IN
    IF ~IsSome(cur_res) THEN Err(RoundNotFound(id))
    ELSE LET w == Unwrap(cur_res) IN
        IF IsEntrant(w) THEN Ok(Some(w.eid))
        ELSE IF ~w.complete THEN Ok(None)
        ELSE LET c == _child_node(g, id, EdgeFromResult(w.result)) IN
            IF ~c.ok THEN c ELSE _winner(g, c.val)

\* Tournament::entrant: Vec::get(id.0).unwrap() panics on an id out of range.
entrant(t, eid) ==
    IF eid \in 0 .. (Len(t.entrants) - 1) THEN Ok(eid) ELSE [ok |-> FALSE, panic |-> TRUE]

\* ------------------------------------------------------------------ battle policy
\* IntBattleSystem::battle (test_tournament.rs): equal values tie, otherwise
\* the larger value wins and the metadata "<winner> wins by <delta>!" holds
\* the winning value and the margin.  The arguments are entrant handles: the
\* index of the shared cell in the tournament's entrant list.
Abs(x) == IF x < 0 THEN -x ELSE x

Tie == [tag |-> "Tie"]
Solved(result, metadata) == [tag |-> "Solved", result |-> result, metadata |-> metadata]

WinsBy(val, delta) == [text |-> "wins by", val |-> val, delta |-> delta]
TiebreakerText(side) == [text |-> "won by random tiebreaker", side |-> side]

battle(cells, a, b) ==
    LET va == cells[a + 1]
        vb == cells[b + 1]
    IN  IF va = vb THEN Tie
        ELSE IF va > vb THEN Solved("A", WinsBy(va, Abs(va - vb)))
        ELSE Solved("B", WinsBy(vb, Abs(va - vb)))

\* IntBattleSystem::tiebreaker: a random draw decides; both outcomes are
\* possible.
tiebreaker(cells, a, b) ==
    {[result |-> s, metadata |-> TiebreakerText(s)] : s \in Sides}

\* ------------------------------------------------------------------ solver
\* An outcome of a (sub)solve: the Result it returns, the graph it leaves in
\* *old_graph, and the calls of the battle policy it made, in order.
Outcome(res, g, log) == [res |-> res, graph |-> g, log |-> log]

BattleCall(round, a, b, ret) ==
    [op |-> "battle", round |-> round, a |-> a, b |-> b, ret |-> ret]
TiebreakerCall(round, a, b, ret) ==
    [op |-> "tiebreaker", round |-> round, a |-> a, b |-> b, ret |-> ret]

\* A lookup that hands out the cell of the next entrant of the list.
get_arc_next(cells, eid) ==
    IF eid \in 0 .. (Len(cells) - 1) THEN Ok((eid + 1) % Len(cells))
    ELSE Err(EntrantNotFound(eid))

\* entrants.get(id.0).ok_or(EntrantNotFound(id))
get_arc(cells, eid) ==
    IF eid \in 0 .. (Len(cells) - 1) THEN Ok(eid) ELSE Err(EntrantNotFound(eid))

\* The argument order of do_bye!: the bye entrant first when $bye_is is A,
\* second when it is B.
bye_order(ent_bye, ent_round, bye_is) ==
    IF bye_is = "A" THEN <<ent_bye, ent_round>> ELSE <<ent_round, ent_bye>>

\* set_complete without the write of the weight.
set_complete_no_write(g, id, result, metadata) ==
    IF id \in node_indices(g) THEN Ok(g) ELSE Err(RoundNotFound(id))

\* The last statements of solve_rec: the node's weight becomes Complete.
set_complete(g, id, result, metadata) ==
    IF id \in node_indices(g)
    THEN Ok(node_weight_set(g, id, Complete(result, metadata)))
    ELSE Err(RoundNotFound(id))

\* fight with the handles given to tiebreaker in the opposite order.
fight_swapped_tiebreaker(cells, g, id, arc_a, arc_b, log) ==
    LET res == battle(cells, arc_a, arc_b)
        log1 == Append(log, BattleCall(id, arc_a, arc_b, res))
    IN  IF res.tag = "Solved" THEN
            LET w == set_complete(g, id, res.result, res.metadata) IN
            {IF w.ok THEN Outcome(Ok(res.result), w.val, log1)
             ELSE Outcome(w, g, log1)}
        ELSE
            {LET w == set_complete(g, id, tb.result, tb.metadata)
                 log2 == Append(log1, TiebreakerCall(id, arc_b, arc_a, tb))
             IN  IF w.ok THEN Outcome(Ok(tb.result), w.val, log2)
                 ELSE Outcome(w, g, log2)
             : tb \in tiebreaker(cells, arc_b, arc_a)}

\* A fight that invokes B::battle a second time on the same handles.
fight_battling_twice(cells, g, id, arc_a, arc_b, log) ==
    LET res == battle(cells, arc_a, arc_b)
        log1 == Append(Append(log, BattleCall(id, arc_a, arc_b, res)),
                       BattleCall(id, arc_a, arc_b, res))
    IN  IF res.tag = "Solved" THEN
            LET w == set_complete(g, id, res.result, res.metadata) IN
            {IF w.ok THEN Outcome(Ok(res.result), w.val, log1)
             ELSE Outcome(w, g, log1)}
        ELSE
            {LET w == set_complete(g, id, tb.result, tb.metadata)
                 log2 == Append(log1, TiebreakerCall(id, arc_a, arc_b, tb))
             IN  IF w.ok THEN Outcome(Ok(tb.result), w.val, log2)
                 ELSE Outcome(w, g, log2)
             : tb \in tiebreaker(cells, arc_a, arc_b)}

\* A fight settled by the random tiebreaker whatever the battle returned.
fight_always_tiebreaker(cells, g, id, arc_a, arc_b, log) ==
    LET res == battle(cells, arc_a, arc_b)
        log1 == Append(log, BattleCall(id, arc_a, arc_b, res))
    IN  {LET w == set_complete(g, id, tb.result, tb.metadata)
             log2 == Append(log1, TiebreakerCall(id, arc_a, arc_b, tb))
         IN  IF w.ok THEN Outcome(Ok(tb.result), w.val, log2)
             ELSE Outcome(w, g, log2)
         : tb \in tiebreaker(cells, arc_a, arc_b)}

\* B::battle on the two handles, B::tiebreaker on the same handles when the
\* battle ties, then the write of the round's weight.
fight(cells, g, id, arc_a, arc_b, log) ==
    LET res == battle(cells, arc_a, arc_b)
        log1 == Append(log, BattleCall(id, arc_a, arc_b, res))
    IN  IF res.tag = "Solved" THEN
            LET w == set_complete(g, id, res.result, res.metadata) IN
            {IF w.ok THEN Outcome(Ok(res.result), w.val, log1)
             ELSE Outcome(w, g, log1)}
        ELSE
            {LET w == set_complete(g, id, tb.result, tb.metadata)
                 log2 == Append(log1, TiebreakerCall(id, arc_a, arc_b, tb))
             IN  IF w.ok THEN Outcome(Ok(tb.result), w.val, log2)
                 ELSE Outcome(w, g, log2)
             : tb \in tiebreaker(cells, arc_a, arc_b)}

\* The two handle lookups, first then second, and the fight.
lookup_and_fight(cells, g, id, first, second, log) ==
    LET arc_1 == get_arc(cells, first)
        arc_2 == get_arc(cells, second)
    IN  IF ~arc_1.ok THEN {Outcome(arc_1, g, log)}
        ELSE IF ~arc_2.ok THEN {Outcome(arc_2, g, log)}
        ELSE fight(cells, g, id, arc_1.val, arc_2.val, log)

\* Option::unwrap_or takes its argument by value: the block that solves the
\* node and reads its winner again is evaluated whether or not the first
\* lookup found a winner, and its value is used only when the first lookup
\* found none.
unwrap_or(first, block) == IF IsSome(first) THEN Unwrap(first) ELSE block

RECURSIVE solve_rec(_, _, _)

\* Self::_winner(&graph, n)?.unwrap_or({ self.solve_rec(entrants, &mut graph,
\* n)?; Self::_winner(&graph, n)?.ok_or(Other(msg))? }): the outcomes, each
\* with the entrant id as the value of an Ok result.
winner_or_solve(cells, g, n, msg) ==
    LET first == _winner(g, n) IN
    IF ~first.ok THEN {Outcome(first, g, <<>>)}
    ELSE {LET second == _winner(o.graph, n) IN
          IF ~o.res.ok THEN Outcome(o.res, g, o.log)
          ELSE IF ~second.ok THEN Outcome(second, o.graph, o.log)
          ELSE IF ~IsSome(second.val) THEN Outcome(Err(Other(msg)), o.graph, o.log)
          ELSE Outcome(Ok(unwrap_or(first.val, Unwrap(second.val))), o.graph, o.log)
          : o \in solve_rec(cells, g, n)}

\* do_bye!($ent_bye, $other_node, $bye_is)
do_bye(cells, g, id, ent_bye, other_node, bye_is) ==
    UNION {IF ~r.res.ok THEN {r}
           ELSE LET arc_bye == get_arc(cells, ent_bye)
                    arc_round == get_arc(cells, r.res.val)
                IN  IF ~arc_bye.ok THEN {Outcome(arc_bye, r.graph, r.log)}
                    ELSE IF ~arc_round.ok THEN {Outcome(arc_round, r.graph, r.log)}
                    ELSE LET args == bye_order(arc_bye.val, arc_round.val, bye_is)
                         IN  fight(cells, r.graph, id, args[1], args[2], r.log)
           : r \in winner_or_solve(cells, g, other_node, "Solving Bye failed")}

\* The (Round, Round) arm writing the round's result into the graph it was
\* given, without the results of the two children.
both_rounds_dropping_children(cells, g, id, a, b) ==
    UNION {IF ~ra.res.ok THEN {ra}
           ELSE UNION {IF ~rb.res.ok THEN {Outcome(rb.res, rb.graph, ra.log \o rb.log)}
                       ELSE lookup_and_fight(cells, g, id, ra.res.val,
                                             rb.res.val, ra.log \o rb.log)
                       : rb \in winner_or_solve(cells, ra.graph, b,
                                                "Finding winner failed for B")}
           : ra \in winner_or_solve(cells, g, a, "Finding winner failed for A")}

\* The (Round, Round) arm with the round's own battle invoked before the
\* battles of its two children.
both_rounds_fight_first(cells, g, id, a, b) ==
    UNION {IF ~ra.res.ok THEN {ra}
           ELSE UNION {IF ~rb.res.ok THEN {Outcome(rb.res, rb.graph, ra.log \o rb.log)}
                       ELSE {Outcome(f.res, f.graph, f.log \o ra.log \o rb.log)
                             : f \in lookup_and_fight(cells, rb.graph, id, ra.res.val,
                                                      rb.res.val, <<>>)}
                       : rb \in winner_or_solve(cells, ra.graph, b,
                                                "Finding winner failed for B")}
           : ra \in winner_or_solve(cells, g, a, "Finding winner failed for A")}

\* The (Round, Round) arm: child a is resolved first, then child b.
both_rounds(cells, g, id, a, b) ==
    UNION {IF ~ra.res.ok THEN {ra}
           ELSE UNION {IF ~rb.res.ok THEN {Outcome(rb.res, rb.graph, ra.log \o rb.log)}
                       ELSE lookup_and_fight(cells, rb.graph, id, ra.res.val,
                                             rb.res.val, ra.log \o rb.log)
                       : rb \in winner_or_solve(cells, ra.graph, b,
                                                "Finding winner failed for B")}
           : ra \in winner_or_solve(cells, g, a, "Finding winner failed for A")}

\* Tournament::solve_rec on a clone of *old_graph; *old_graph is written only
\* on success, so a failing outcome carries the graph it was given.
solve_rec(cells, old_graph, id) ==
    LET children == neighbors_directed(old_graph, id) IN
    IF Len(children) < 1 THEN {Outcome(Err(Other("Child A not found")), old_graph, <<>>)}
    ELSE IF Len(children) < 2 THEN {Outcome(Err(Other("Child B not found")), old_graph, <<>>)}
    ELSE
        LET a == children[1]
            b == children[2]
            wa == Unwrap(node_weight(old_graph, a))
            wb == Unwrap(node_weight(old_graph, b))
            outs == IF IsEntrant(wa) /\ IsEntrant(wb)
                        THEN lookup_and_fight(cells, old_graph, id, wa.eid, wb.eid, <<>>)
                    ELSE IF IsEntrant(wa) THEN do_bye(cells, old_graph, id, wa.eid, b, "A")
                    ELSE IF IsEntrant(wb) THEN do_bye(cells, old_graph, id, wb.eid, a, "B")
                    ELSE both_rounds(cells, old_graph, id, a, b)
        IN  {IF o.res.ok THEN o ELSE Outcome(o.res, old_graph, o.log) : o \in outs}

\* solve_round that moved the graph out of the tournament and leaves an empty
\* one behind when solve_rec fails.
solve_round_taking(t, id) ==
    {[res |-> o.res,
      graph |-> IF o.res.ok THEN o.graph ELSE EmptyGraph,
      log |-> o.log] : o \in solve_rec(t.entrants, t.graph, id)}

\* solve_round that starts from a graph whose rounds were all reset to
\* Incomplete, and keeps that graph.
solve_round_clearing(t, id) ==
    LET cleared == [t.graph EXCEPT !.nodes =
                        [i \in DOMAIN t.graph.nodes |->
                            IF IsRound(t.graph.nodes[i]) THEN Incomplete
                            ELSE t.graph.nodes[i]]]
    IN  {[res |-> o.res,
          graph |-> IF o.res.ok THEN o.graph ELSE cleared,
          log |-> o.log] : o \in solve_rec(t.entrants, cleared, id)}

\* solve_round solving from the grand finals whatever the id.
solve_round_whole(t, id) ==
    {[res |-> o.res,
      graph |-> IF o.res.ok THEN o.graph ELSE t.graph,
      log |-> o.log] : o \in solve_rec(t.entrants, t.graph, t.grand_finals)}

\* Tournament::solve_round: solve_rec on a clone of the graph, which replaces
\* the tournament's graph only when solve_rec succeeds.
solve_round(t, id) ==
    {[res |-> o.res,
      graph |-> IF o.res.ok THEN o.graph ELSE t.graph,
      log |-> o.log] : o \in solve_rec(t.entrants, t.graph, id)}

\* Tournament::solve: solve_round on the grand finals, the result dropped.
solve(t) ==
    {[res |-> IF o.res.ok THEN Ok("()") ELSE o.res,
      graph |-> o.graph,
      log |-> o.log] : o \in solve_round(t, t.grand_finals)}

\* Tournament::winner
winner(t, id) == _winner(t.graph, id)

\* ------------------------------------------------------------------ state
VARIABLES
    graph,          \* Tournament.graph
    entrants,       \* Tournament.entrants: the value in each entrant's cell
    grand_finals,   \* Tournament.grand_finals
    last,           \* the last call: its operation, argument, result and the
                    \* calls of the battle policy it made
    battles,        \* the number of battle invocations made so far
    calls           \* the number of solve / solve_round calls made so far

vars == <<graph, entrants, grand_finals, last, battles, calls>>

self == [graph |-> graph, entrants |-> entrants, grand_finals |-> grand_finals]

\* The entrants of test_tournament.rs's winner_127_tournament.
Winner127 == <<6, 1, 2, 9, 3, 4, 127, 5, 8, 7>>

RECURSIVE SeqsOf(_, _)
SeqsOf(S, n) ==
    IF n = 0 THEN {<<>>} ELSE {Append(s, v) : s \in SeqsOf(S, n - 1), v \in S}

IsPermutation(s) == \A i, j \in DOMAIN s : i # j => s[i] # s[j]

\* The entrant lists tournaments are built from: every list of 1..MaxN values
\* of 1..MaxVal (random_int_tournament, with ties), every ordering of the
\* values 1..N for N up to MaxPerm, the values 1..N in ascending order for N
\* up to MaxAscending, and the list of winner_127_tournament.
EntrantLists ==
    UNION {SeqsOf(1 .. MaxVal, n) : n \in 1 .. MaxN}
    \cup UNION {{s \in SeqsOf(1 .. n, n) : IsPermutation(s)} : n \in 1 .. MaxPerm}
    \cup {[i \in 1 .. n |-> i] : n \in 1 .. MaxAscending}
    \cup {Winner127}

CountBattles(log) == Len(SelectSeq(log, LAMBDA c : c.op = "battle"))

Init ==
    \E es \in EntrantLists :
        LET t == new(es).val IN
        /\ graph = t.graph
        /\ entrants = t.entrants
        /\ grand_finals = t.grand_finals
        /\ last = [op |-> "new", res |-> Ok("()"), log |-> <<>>]
        /\ battles = 0
        /\ calls = 0

\* A failed construction returns no Tournament to call anything on.
Constructed == ~(calls = 0 /\ ~last.res.ok)

Solve ==
    \E o \in solve(self) :
        /\ Constructed
        /\ calls < MaxCalls
        /\ calls' = calls + 1
        /\ graph' = o.graph
        /\ last' = [op |-> "solve", res |-> o.res, log |-> o.log]
        /\ battles' = battles + CountBattles(o.log)
        /\ UNCHANGED <<entrants, grand_finals>>

\* solve_round on every node of the graph and on one id that is not in it.
SolveRound ==
    \E id \in 0 .. node_count(graph) :
        \E o \in solve_round(self, id) :
            /\ Constructed
            /\ calls < MaxCalls
            /\ calls' = calls + 1
            /\ graph' = o.graph
            /\ last' = [op |-> "solve_round", id |-> id, res |-> o.res, log |-> o.log]
            /\ battles' = battles + CountBattles(o.log)
            /\ UNCHANGED <<entrants, grand_finals>>

Next == Solve \/ SolveRound

Spec == Init /\ [][Next]_vars

\* Construction through either constructor, from every entrant list and from
\* the empty one; a failed construction leaves nothing behind.
InitNew ==
    \E es \in EntrantLists \cup {<<>>} : \E ctor \in {"new", "new_from_gen"} :
        LET r == IF ctor = "new" THEN new(es) ELSE new_from_gen(Len(es), es) IN
        /\ graph = IF r.ok THEN r.val.graph ELSE EmptyGraph
        /\ entrants = IF r.ok THEN r.val.entrants ELSE <<>>
        /\ grand_finals = IF r.ok THEN r.val.grand_finals ELSE 0
        /\ last = [op |-> ctor, input |-> es,
                   res |-> IF r.ok THEN Ok("()") ELSE r, log |-> <<>>]
        /\ battles = 0
        /\ calls = 0

SpecNew == InitNew /\ [][Next]_vars

\* ------------------------------------------------------------------ shape
\* What the graph looks like, read off its nodes and edges alone.
Weight(id) == graph.nodes[id + 1]

Rounds == {n \in node_indices(graph) : IsRound(Weight(n))}

Leaves == {n \in node_indices(graph) : IsEntrant(Weight(n))}

OutEdges(id) == {i \in DOMAIN graph.edges : graph.edges[i].source = id}

InEdges(id) == {i \in DOMAIN graph.edges : graph.edges[i].target = id}

\* The targets of the outgoing edges of id that carry the label side.
Labelled(id, side) ==
    {graph.edges[i].target : i \in {j \in OutEdges(id) : graph.edges[j].weight = side}}

RECURSIVE Subtree(_)
Subtree(id) ==
    {id} \cup UNION {Subtree(graph.edges[i].target) : i \in OutEdges(id)}

\* The entrant ids carried by the leaves of the subtree of id.
EntrantsUnder(id) == {Weight(n).eid : n \in Subtree(id) \cap Leaves}

N == Len(entrants)

\* ------------------------------------------------------------------ claims

\* C1: a tournament built from N >= 1 entrants has exactly N Entrant leaves and
\* N - 1 Round nodes, and right after construction all of them are Incomplete:
\* len_entrants = N, len_rounds = len_rounds_incomplete = N - 1 and
\* len_rounds_complete = 0.
C1_NodeCounts ==
    /\ Cardinality(Leaves) = N
    /\ len_entrants(self) = N
    /\ len_rounds(graph) = N - 1
    /\ last.op = "new" =>
        /\ len_rounds_incomplete(graph) = N - 1
        /\ len_rounds_complete(graph) = 0

C1_Witness ==
    /\ last.op = "new"
    /\ N = 10
    /\ Cardinality(Leaves) = 10
    /\ len_rounds_incomplete(graph) = 9

\* C2: after solve() on a freshly built tournament of N >= 1 entrants every
\* Round node is Complete: len_rounds_incomplete = 0 and len_rounds_complete =
\* N - 1.
C2_SolveCompletesAll ==
    (last.op = "solve" /\ calls = 1) =>
        /\ len_rounds_incomplete(graph) = 0
        /\ len_rounds_complete(graph) = N - 1
        /\ \A r \in Rounds : IsComplete(Weight(r))

C2_Witness ==
    /\ last.op = "solve"
    /\ calls = 1
    /\ N = 10
    /\ len_rounds_complete(graph) = 9

\* C3: the battle policy is never invoked again for a round that is already
\* Complete, so once the grand finals are solved the number of battle
\* invocations made over all calls is exactly N - 1.
C3_BattlesOncePerRound ==
    (N >= 2 /\ IsComplete(Weight(grand_finals))) => battles = N - 1

\* The largest entrant value, the value in an entrant's cell, and the last
\* call of the battle policy made by the last solve.
MaxValue == CHOOSE v \in {entrants[i] : i \in DOMAIN entrants} :
                \A i \in DOMAIN entrants : entrants[i] <= v

ValueOf(eid) == entrants[eid + 1]

LastCall == last.log[Len(last.log)]

\* C4: when the entrant values are pairwise distinct and N >= 2, solve() makes
\* winner(grand_finals) the entrant holding the largest value; for the
\* entrants 6,1,2,9,3,4,127,5,8,7 the winner is 127 and the grand finals are
\* fought by 127 and 9, won by a margin of 118.
C4_LargestWins ==
    (N >= 2 /\ IsPermutation(entrants) /\ last.op = "solve") =>
        LET w == winner(self, grand_finals) IN
        /\ last.res.ok
        /\ w.ok
        /\ IsSome(w.val)
        /\ ValueOf(Unwrap(w.val)) = MaxValue
        /\ entrants = Winner127 =>
            /\ ValueOf(Unwrap(w.val)) = 127
            /\ Weight(grand_finals).metadata = WinsBy(127, 118)
            /\ LastCall.op = "battle"
            /\ LastCall.round = grand_finals
            /\ {ValueOf(LastCall.a), ValueOf(LastCall.b)} = {127, 9}

C4_Witness ==
    /\ last.op = "solve"
    /\ entrants = Winner127
    /\ winner(self, grand_finals) = Ok(Some(6))
    /\ Weight(grand_finals).metadata.delta = 118

\* C5: the result stored in a Complete round is the label of the outgoing edge
\* whose subtree holds the round's winner: with result A the winner is a leaf
\* under the A-labelled edge, with result B under the B-labelled edge.
C5_ResultIsWinningEdgeLabel ==
    \A r \in Rounds :
        IsComplete(Weight(r)) =>
            LET w == winner(self, r) IN
            /\ w.ok
            /\ IsSome(w.val)
            /\ \E c \in Labelled(r, Weight(r).result) : Unwrap(w.val) \in EntrantsUnder(c)

\* The calls of the last solve that were made for round r, in order.
CallsFor(r) == SelectSeq(last.log, LAMBDA c : c.round = r)

\* The entrant the battle policy declared the winner in the call that decided
\* round r: its first argument for the result A, its second for B.
Declared(r) ==
    LET c == CallsFor(r)[Len(CallsFor(r))]
    IN  IF c.ret.result = "A" THEN c.a ELSE c.b

\* C6: winner(id) is the leaf's own EntrantId on an Entrant leaf, None on an
\* Incomplete round, and on a Complete round the id of an entrant leaf of the
\* round's subtree, namely the entrant that the battle or tiebreaker recorded
\* at that round declared the winner.
C6_WinnerLookup ==
    \A id \in node_indices(graph) :
        LET w == winner(self, id) IN
        /\ IsEntrant(Weight(id)) => w = Ok(Some(Weight(id).eid))
        /\ IsIncomplete(Weight(id)) => w = Ok(None)
        /\ IsComplete(Weight(id)) =>
            /\ w.ok
            /\ IsSome(w.val)
            /\ Unwrap(w.val) \in EntrantsUnder(id)
            /\ (last.res.ok /\ Len(CallsFor(id)) > 0) => Unwrap(w.val) = Declared(id)

\* C7: when battle returns Tie for a round, tiebreaker is invoked exactly once,
\* immediately afterwards, with the same two handles in the same order, and
\* what it returns is stored in the round; when battle returns a decisive
\* result, tiebreaker is not invoked and what battle returned is stored.
C7_TieThenTiebreaker ==
    \A i \in DOMAIN last.log :
        LET c == last.log[i] IN
        /\ (c.op = "battle" /\ c.ret.tag = "Tie") =>
            /\ i + 1 \in DOMAIN last.log
            /\ last.log[i + 1].op = "tiebreaker"
            /\ last.log[i + 1].round = c.round
            /\ last.log[i + 1].a = c.a
            /\ last.log[i + 1].b = c.b
            /\ Len(SelectSeq(CallsFor(c.round), LAMBDA d : d.op = "tiebreaker")) = 1
            /\ last.res.ok =>
                Weight(c.round) = Complete(last.log[i + 1].ret.result,
                                           last.log[i + 1].ret.metadata)
        /\ (c.op = "battle" /\ c.ret.tag = "Solved") =>
            /\ Len(SelectSeq(CallsFor(c.round), LAMBDA d : d.op = "tiebreaker")) = 0
            /\ last.res.ok => Weight(c.round) = Complete(c.ret.result, c.ret.metadata)
        /\ c.op = "tiebreaker" =>
            /\ i > 1
            /\ last.log[i - 1].op = "battle"
            /\ last.log[i - 1].ret.tag = "Tie"

C7_Witness ==
    /\ last.res.ok
    /\ \E i \in DOMAIN last.log :
        /\ last.log[i].op = "tiebreaker"
        /\ Weight(last.log[i].round).metadata = last.log[i].ret.metadata
    /\ \E i \in DOMAIN last.log :
        /\ last.log[i].op = "battle"
        /\ last.log[i].ret.tag = "Solved"

\* C8: a tournament of one entrant has no rounds, winner(grand_finals) is
\* entrant 0 without any solve, and solve() succeeds without invoking battle
\* or tiebreaker.
C8_SingleEntrant ==
    N = 1 =>
        /\ len_rounds(graph) = 0
        /\ winner(self, grand_finals) = Ok(Some(0))
        /\ last.op = "solve" => (last.res.ok /\ last.log = <<>>)

\* C9: the graph is a binary tree rooted at grand_finals: the root has no
\* incoming edge, every other node exactly one, every Round has exactly two
\* outgoing edges, one labelled A and one labelled B, every Entrant leaf has
\* none, every node is reachable from the root, and each EntrantId 0..N-1 is
\* carried by exactly one leaf.
C9_BinaryTree ==
    /\ InEdges(grand_finals) = {}
    /\ \A n \in node_indices(graph) \ {grand_finals} : Cardinality(InEdges(n)) = 1
    /\ \A r \in Rounds :
        /\ Cardinality(OutEdges(r)) = 2
        /\ {graph.edges[i].weight : i \in OutEdges(r)} = Sides
    /\ \A l \in Leaves : OutEdges(l) = {}
    /\ Subtree(grand_finals) = node_indices(graph)
    /\ \A e \in 0 .. (N - 1) : Cardinality({l \in Leaves : Weight(l).eid = e}) = 1
    /\ \A l \in Leaves : Weight(l).eid \in 0 .. (N - 1)

C9_Witness ==
    /\ N = 10
    /\ Cardinality(Rounds) = 9
    /\ \E r \in Rounds : \E l \in Leaves : \E q \in Rounds \ {r} :
        {graph.edges[i].target : i \in OutEdges(r)} = {l, q}

Lowest(S) == CHOOSE x \in S : \A y \in S : x <= y

\* C10: under each round the ordered slice of ids is partitioned as follows:
\* two ids give the first as a leaf on the A edge and the second as a leaf on
\* the B edge; three ids give the first as a leaf on the B edge and a new
\* round on the A edge over the other two; four or more ids are split at
\* floor(len / 2), the lower part under a new round on the A edge and the
\* upper part under a new round on the B edge.
C10_Partition ==
    \A r \in Rounds :
        LET ids == EntrantsUnder(r)
            len == Cardinality(ids)
            lo == Lowest(ids)
        IN  /\ ids = lo .. (lo + len - 1)
            /\ \E ca \in Labelled(r, "A") : \E cb \in Labelled(r, "B") :
                /\ len >= 2
                /\ len = 2 =>
                    /\ Weight(ca) = Entrant(lo)
                    /\ Weight(cb) = Entrant(lo + 1)
                /\ len = 3 =>
                    /\ Weight(cb) = Entrant(lo)
                    /\ IsRound(Weight(ca))
                    /\ EntrantsUnder(ca) = {lo + 1, lo + 2}
                /\ len >= 4 =>
                    /\ IsRound(Weight(ca))
                    /\ IsRound(Weight(cb))
                    /\ EntrantsUnder(ca) = lo .. (lo + (len \div 2) - 1)
                    /\ EntrantsUnder(cb) = (lo + (len \div 2)) .. (lo + len - 1)

C10_Witness ==
    /\ N = 10
    /\ \E r \in Rounds : Cardinality(EntrantsUnder(r)) = 2
    /\ \E r \in Rounds : Cardinality(EntrantsUnder(r)) = 3
    /\ \E r \in Rounds :
        /\ Cardinality(EntrantsUnder(r)) = 5
        /\ \E ca \in Labelled(r, "A") : Cardinality(EntrantsUnder(ca)) = 2

\* The weight of node id after a step; None when the node is gone.
WeightAfter(id) == node_weight(graph', id)

\* C11: Complete is terminal: once a round is Complete, no later solve() or
\* solve_round() call changes its stored result or metadata.
C11_CompleteIsTerminal ==
    [][\A r \in Rounds : IsComplete(Weight(r)) => WeightAfter(r) = Some(Weight(r))]_vars

\* C12: for every round id, child_node(id, side) is the target of the outgoing
\* edge labelled side, and child_nodes(id) is the pair (target of the
\* A-labelled edge, target of the B-labelled edge).
C12_ChildBySide ==
    \A r \in Rounds :
        /\ \A side \in Sides :
            LET c == _child_node(graph, r, side) IN
            c.ok /\ Labelled(r, side) = {c.val}
        /\ LET cs == _child_nodes(graph, r) IN
            /\ cs.ok
            /\ Labelled(r, "A") = {cs.val[1]}
            /\ Labelled(r, "B") = {cs.val[2]}

\* C13: for every round, battle and tiebreaker receive as first argument the
\* entrant coming from the round's A-labelled edge and as second argument the
\* entrant coming from its B-labelled edge; a bye entrant is passed in the
\* position of the edge its leaf occupies.
C13_ArgumentsFollowLabels ==
    \A i \in DOMAIN last.log :
        LET c == last.log[i] IN
        /\ \E ca \in Labelled(c.round, "A") : c.a \in EntrantsUnder(ca)
        /\ \E cb \in Labelled(c.round, "B") : c.b \in EntrantsUnder(cb)

\* C14: construction from zero entrants, through new or new_from_gen, fails
\* with NeedsAtLeastOneEntrant, and construction from N >= 1 entrants never
\* fails.
C14_Construction ==
    calls = 0 =>
        /\ Len(last.input) = 0 => last.res = Err(NeedsAtLeastOneEntrant)
        /\ Len(last.input) >= 1 =>
            /\ last.res.ok
            /\ entrants = last.input
            /\ node_count(graph) = 2 * Len(last.input) - 1

C14_Witness ==
    /\ calls = 0
    /\ last.op = "new_from_gen"
    /\ last.input = <<>>
    /\ last.res = Err(NeedsAtLeastOneEntrant)

\* C15: looking up an entrant with an EntrantId outside 0..N-1 yields the typed
\* error EntrantNotFound and never panics.
C15_EntrantOutOfRange ==
    \A eid \in {N, N + 1} : entrant(self, eid) = Err(EntrantNotFound(eid))

\* A node id that is not in the graph.
AbsentId == node_count(graph)

\* C16: winner, child_node, child_nodes and solve_round, given a node id that
\* is absent from the graph, fail with RoundNotFound carrying that id.
C16_AbsentNode ==
    /\ winner(self, AbsentId) = Err(RoundNotFound(AbsentId))
    /\ \A side \in Sides :
        _child_node(graph, AbsentId, side) = Err(RoundNotFound(AbsentId))
    /\ _child_nodes(graph, AbsentId) = Err(RoundNotFound(AbsentId))
    /\ (last.op = "solve_round" /\ last.id = AbsentId) =>
        last.res = Err(RoundNotFound(AbsentId))

\* C17: a solve() or solve_round() call that returns an error leaves every
\* round that was Complete before the call Complete with the same result and
\* metadata.
C17_ErrorKeepsComplete ==
    [][(calls' = calls + 1 /\ ~last'.res.ok) =>
        \A r \in Rounds : IsComplete(Weight(r)) => WeightAfter(r) = Some(Weight(r))]_vars

C17_Witness ==
    /\ calls = 2
    /\ ~last.res.ok
    /\ last.op = "solve_round"
    /\ \E r \in Rounds : IsComplete(Weight(r))

\* The topology of a graph: its nodes with the payload of the rounds left
\* out, and its edges with their labels.
Shape(g) ==
    [nodes |-> [i \in DOMAIN g.nodes |->
                    IF IsEntrant(g.nodes[i]) THEN g.nodes[i] ELSE [kind |-> "Round"]],
     edges |-> g.edges]

\* C18: no solve or solve_round call changes the topology: the nodes, the
\* edges and their labels, the EntrantId of each leaf, the grand finals node
\* and the entrant count stay as built; only the payload of Round nodes
\* changes.  (winner, winner_entrant, child_node and child_nodes borrow the
\* tournament immutably.)
C18_TopologyFixed ==
    [][/\ Shape(graph') = Shape(graph)
       /\ grand_finals' = grand_finals
       /\ Len(entrants') = Len(entrants)]_vars

C18_Witness ==
    /\ calls = 2
    /\ last.res.ok
    /\ N = 10
    /\ \E r \in Rounds : IsComplete(Weight(r)) /\ Weight(r).result = "B"
    /\ \E r \in Rounds : IsIncomplete(Weight(r))

\* C19: a successful solve_round(id) on a round solves only up to that round:
\* afterwards every round of the subtree of id is Complete, the result
\* returned is the result stored at id, and every round outside the subtree
\* has the state it had before the call.
C19_SolveRoundFrame ==
    [][(calls' = calls + 1 /\ last'.op = "solve_round" /\ last'.res.ok) =>
        /\ last'.id \in Rounds
        /\ \A r \in Subtree(last'.id) \cap Rounds :
            IsSome(WeightAfter(r)) /\ IsComplete(Unwrap(WeightAfter(r)))
        /\ Unwrap(WeightAfter(last'.id)).result = last'.res.val
        /\ \A r \in Rounds \ Subtree(last'.id) : WeightAfter(r) = Some(Weight(r))]_vars

C19_Witness ==
    /\ last.op = "solve_round"
    /\ last.res.ok
    /\ last.id # grand_finals
    /\ N = 10
    /\ IsIncomplete(Weight(grand_finals))
    /\ \A r \in Subtree(last.id) \cap Rounds : IsComplete(Weight(r))
    /\ Cardinality(Subtree(last.id) \cap Rounds) >= 2

\* No two entrants hold the same value: IntBattleSystem::battle never ties,
\* so the policy is a pure comparison of the two values.
NoTies == IsPermutation(entrants)

\* C20: determinism for a pure battle policy: from the same tournament state
\* every run of solve() gives the same result, the same round states and the
\* same battle calls, and solving the solved tournament again gives every
\* round the same result, metadata and winner.
C20_Deterministic ==
    NoTies =>
        /\ Cardinality(solve(self)) = 1
        /\ \A o1 \in solve(self) :
            \A o2 \in solve([self EXCEPT !.graph = o1.graph]) :
                /\ o2.res = o1.res
                /\ o2.graph = o1.graph
                /\ \A r \in Rounds : _winner(o2.graph, r) = _winner(o1.graph, r)

C20_Witness ==
    /\ NoTies
    /\ N >= 3
    /\ calls = 2
    /\ last.op = "solve"
    /\ last.res.ok
    /\ \E i \in DOMAIN last.log : last.log[i].ret.result = "A"
    /\ \E i \in DOMAIN last.log : last.log[i].ret.result = "B"
    /\ \A o \in solve(self) : o.graph = graph

\* The Entrant leaves that are children of round r.
LeafChildren(r) == {graph.edges[i].target : i \in OutEdges(r)} \cap Leaves

C22_WinnerNone ==
    /\ \A r \in Rounds : IsIncomplete(Weight(r)) => winner(self, r) = Ok(None)
    /\ \A l \in Leaves : winner(self, l) = Ok(None)

\* The number of battle invocations the last call made for round r.
BattlesFor(r) == CountBattles(CallsFor(r))

\* The round the last call solved up to.
LastRoot == IF last.op = "solve" THEN grand_finals ELSE last.id

\* C23: a single solve() on a freshly built tournament of N >= 2 entrants
\* invokes battle exactly once for each round, N - 1 invocations in total,
\* and a single solve_round(id) on a fresh tournament invokes battle exactly
\* once for each round of the subtree of id and for no other round.
C23_FreshSolveBattlesOnce ==
    (calls = 1 /\ last.res.ok /\ N >= 2) =>
        /\ \A r \in Rounds : BattlesFor(r) = IF r \in Subtree(LastRoot) THEN 1 ELSE 0
        /\ \A i \in DOMAIN last.log : last.log[i].round \in Rounds
        /\ last.op = "solve" => CountBattles(last.log) = N - 1 /\ battles = N - 1

C23_Witness ==
    /\ calls = 1
    /\ last.op = "solve_round"
    /\ last.res.ok
    /\ N = 12
    /\ CountBattles(last.log) = 5
    /\ battles = 5

\* The entrants recorded as the winners of the children of round r.
ChildWinners(r) ==
    {w.val : w \in {_winner(graph, graph.edges[i].target) : i \in OutEdges(r)}}

\* C24: whenever battle is invoked for a round, its two arguments are the
\* entrants recorded as the winners of the round's two children, hence after
\* the call winner(R) is one of the two entrants that fought at R.  (Within
\* one call nothing under a round changes after its battle, so the winners
\* read after the call are those of the moment of the battle.)
C24_FightersAreChildWinners ==
    last.res.ok =>
        \A i \in DOMAIN last.log :
            LET c == last.log[i] IN
            c.op = "battle" =>
                /\ ChildWinners(c.round) = {Some(c.a), Some(c.b)}
                /\ winner(self, c.round) \in {Ok(Some(c.a)), Ok(Some(c.b))}

\* The positions in the last call's log of the calls made for the rounds of
\* the subtree of id.
PositionsUnder(id) == {j \in DOMAIN last.log : last.log[j].round \in Subtree(id)}

Children(r) == {graph.edges[i].target : i \in OutEdges(r)}

\* C25: solving is bottom-up and depth-first: within one call the battle for
\* a round is invoked only after every round below it has been battled (all
\* the calls made for rounds of its subtree come before), and the two child
\* subtrees of a round are solved one after the other, never interleaved.
C25_BottomUpDepthFirst ==
    /\ \A i \in DOMAIN last.log :
        \A r2 \in (Subtree(last.log[i].round) \cap Rounds) \ {last.log[i].round} :
            /\ \E j \in 1 .. (i - 1) : last.log[j].round = r2 /\ last.log[j].op = "battle"
            /\ \A j \in DOMAIN last.log : last.log[j].round = r2 => j < i
            /\ last.res.ok => IsComplete(Weight(r2))
    /\ \A r \in Rounds : \A c1, c2 \in Children(r) :
        c1 # c2 =>
            \/ \A x \in PositionsUnder(c1), y \in PositionsUnder(c2) : x < y
            \/ \A x \in PositionsUnder(c1), y \in PositionsUnder(c2) : y < x

C25_Witness ==
    /\ N = 4
    /\ calls = 2
    /\ last.op = "solve"
    /\ last.res.ok
    /\ Len(last.log) = 3
    /\ last.log[3].round = grand_finals
    /\ \A c \in Children(grand_finals) : Cardinality(PositionsUnder(c)) = 1

\* C26: no round ever goes from Complete back to Incomplete: over every
\* solve or solve_round call, successful or failing, the set of Complete
\* rounds only grows and len_rounds_complete() never decreases.
C26_CompleteNeverReverts ==
    [][/\ \A r \in Rounds :
            IsComplete(Weight(r)) =>
                IsSome(WeightAfter(r)) /\ IsComplete(Unwrap(WeightAfter(r)))
       /\ len_rounds_complete(graph') >= len_rounds_complete(graph)]_vars

C26_Witness ==
    /\ calls = 2
    /\ N >= 3
    /\ last.op = "solve_round"
    /\ last.res.ok
    /\ battles > CountBattles(last.log)
    /\ CountBattles(last.log) > 0
    /\ len_rounds_complete(graph) = N - 1
    /\ len_rounds_incomplete(graph) = 0

\* C27: completeness is closed downwards: if a round is Complete then every
\* round of its subtree is Complete, so winner(id) of a Complete round is
\* always Some(entrant), an entrant of a leaf below it, never None or an
\* error.
C27_CompleteClosedDownwards ==
    \A r \in Rounds :
        IsComplete(Weight(r)) =>
            /\ \A r2 \in Subtree(r) \cap Rounds : IsComplete(Weight(r2))
            /\ winner(self, r).ok
            /\ IsSome(winner(self, r).val)
            /\ Unwrap(winner(self, r).val) \in EntrantsUnder(r)

C27_Witness ==
    /\ N = 12
    /\ IsIncomplete(Weight(grand_finals))
    /\ \E r \in Rounds :
        /\ IsComplete(Weight(r))
        /\ Cardinality(Subtree(r) \cap Rounds) = 5
        /\ Cardinality(EntrantsUnder(r)) = 6
    /\ len_rounds_complete(graph) = 7

\* The number of edges on the longest path from id down to a leaf.
RECURSIVE Height(_)
Height(id) ==
    IF Children(id) = {} THEN 0
    ELSE LET hs == {Height(c) : c \in Children(id)}
         IN  1 + CHOOSE h \in hs : \A k \in hs : k <= h

\* ceil(log2 n): the least k with 2^k >= n.
CeilLog2(n) == CHOOSE k \in 0 .. n : 2 ^ k >= n /\ \A j \in 0 .. (k - 1) : 2 ^ j < n

\* C28: the built bracket is size-balanced: for every round the numbers of
\* entrant leaves under its two children differ by at most 1, a round has one
\* leaf child and one round child only when its subtree holds exactly 3
\* entrants (the bye leaf being on the B edge), and the height of the tree is
\* ceil(log2 N) for N >= 2.
C28_SizeBalanced ==
    /\ \A r \in Rounds :
        /\ Cardinality(Children(r)) = 2
        /\ \A c1, c2 \in Children(r) :
            Abs(Cardinality(EntrantsUnder(c1)) - Cardinality(EntrantsUnder(c2))) <= 1
        /\ (LeafChildren(r) # {} /\ Children(r) \ Leaves # {}) =>
            /\ Cardinality(EntrantsUnder(r)) = 3
            /\ LeafChildren(r) = Labelled(r, "B")
    /\ N >= 2 => Height(grand_finals) = CeilLog2(N)

C28_Witness ==
    /\ calls = 0
    /\ N = 11
    /\ Height(grand_finals) = 4
    /\ Cardinality({r \in Rounds : LeafChildren(r) # {} /\ Children(r) \ Leaves # {}}) = 3

====
